---- MODULE Spec2Model ----
(***************************************************************************)
(* masklint: the walk over a maskfile's command tree (src/src/main.rs).    *)
(* Every script of the tree is written to a file of the output directory   *)
(* and, in lint mode, handed to the linter of its language; the findings   *)
(* are printed and counted, and the count decides the exit.                *)
(*                                                                         *)
(* Strings are sequences of tokens.  Command names, file names and paths   *)
(* are sequences of single characters; the output of a linter is a         *)
(* sequence of words and "\n".                                             *)
(***************************************************************************)
EXTENDS Naturals, Sequences, FiniteSets, TLC

VARIABLES
    maskfile,    \* mask_parser::parse(content).commands: the command tree
    context,     \* ProcessCommandContext: is_dump, no_warnings
    files,       \* the directory context.out_dir: file name -> content
    main,        \* main(): pc, the commands left to its loop, total_findings
    stack,       \* the active calls of process_command, innermost last
    procs,       \* the linter processes started and not yet exited
    stdout,      \* what println! has printed, with the node that printed it
    outcome,     \* the Result main returns; None while it runs
    log          \* history: what the walk did, in order

vars == <<maskfile, context, files, main, stack, procs, stdout, outcome, log>>

\* Option<T>: None, or Some(x)
None == <<>>
Some(x) == <<x>>
Unwrap(opt) == opt[1]

\* A handler that starts no program; the handler of a call before it has one.
NoProgram == "-"

-----------------------------------------------------------------------------
(* Bounds of the model.                                                    *)

\* Nodes of the command tree, under Spec.
MaxNodes == 3
\* Nodes of the command tree, under SpecExec (every executor tag).
MaxNodesExec == 2
\* Nodes of the command tree, under SpecNames (names that make equal files).
MaxNodesNames == 3
\* Nodes of the command tree, under SpecSame (one name).
MaxNodesSame == 4

-----------------------------------------------------------------------------
(* Strings.                                                                *)

\* str::replace: every non-overlapping occurrence of pat, left to right.
RECURSIVE Replace(_, _, _)
Replace(s, pat, rep) ==
    IF Len(s) < Len(pat) THEN s
    ELSE IF SubSeq(s, 1, Len(pat)) = pat
         THEN rep \o Replace(SubSeq(s, Len(pat) + 1, Len(s)), pat, rep)
         ELSE <<s[1]>> \o Replace(Tail(s), pat, rep)

Whitespace == {" ", "\n"}

\* str::trim: without the leading and the trailing whitespace.
RECURSIVE Trim(_)
Trim(s) ==
    IF s = <<>> THEN s
    ELSE IF s[1] \in Whitespace THEN Trim(Tail(s))
    ELSE IF s[Len(s)] \in Whitespace THEN Trim(SubSeq(s, 1, Len(s) - 1))
    ELSE s

\* str::lines: the pieces between "\n"; a final "\n" starts no empty line.
RECURSIVE Lines(_)
Lines(s) ==
    IF s = <<>> THEN <<>>
    ELSE LET brk == {i \in 1..Len(s) : s[i] = "\n"}
         IN  IF brk = {} THEN <<s>>
             ELSE LET i == CHOOSE j \in brk : \A k \in brk : j <= k
                  IN  <<SubSeq(s, 1, i - 1)>> \o Lines(SubSeq(s, i + 1, Len(s)))

\* [&str]::join("\n")
RECURSIVE JoinLines(_)
JoinLines(ls) ==
    IF ls = <<>> THEN <<>>
    ELSE IF Len(ls) = 1 THEN ls[1]
    ELSE ls[1] \o <<"\n">> \o JoinLines(Tail(ls))

-----------------------------------------------------------------------------
(* The language handlers.  A handler is named by what its Display writes.  *)

OutDir == <<"o">>

\* Path::join
PathJoin(dir, file_name) == dir \o <<"/">> \o file_name

\* LanguageHandler::file_extension
file_extension(handler) ==
    CASE handler = "shellcheck" -> <<".", "s", "h">>
      [] handler = "ruff"       -> <<".", "p", "y">>
      [] handler = "rubocop"    -> <<".", "r", "b">>
      [] handler = "nushell"    -> <<".", "n", "u">>
      [] OTHER                  -> <<>>

\* LanguageHandler::content
content(handler, script) ==
    IF handler = "shellcheck"
    THEN <<"#!/bin/usr/env ", script.executor, "\n">> \o script.source
    ELSE script.source

\* The program each handler's execute starts (Command::new); Catchall starts none.
Binary(handler) ==
    CASE handler = "shellcheck" -> "shellcheck"
      [] handler = "ruff"       -> "ruff"
      [] handler = "rubocop"    -> "rubocop"
      [] handler = "nushell"    -> "nu"
      [] OTHER                  -> NoProgram

LintResult(message, result_type) == [message |-> message, result_type |-> result_type]

\* Catchall::execute
CatchallExecute == LintResult(<<"no linter found for target">>, "Warning")

\* Shellcheck::execute, from the captured standard output on
ShellcheckFindings(out, path) ==
    LintResult(Replace(Trim(out), path \o <<" ">>, <<>>), "Findings")

\* Ruff::execute: the lines before the first that starts with "Found "
RECURSIVE RuffValidLines(_, _)
RuffValidLines(ls, path) ==
    IF ls = <<>> THEN <<>>
    ELSE IF ls[1] # <<>> /\ ls[1][1] = "Found " THEN <<>>
    ELSE <<Replace(ls[1], path \o <<":">>, <<"line ">>)>> \o RuffValidLines(Tail(ls), path)

\* Ruff::execute, from the captured standard output on
RuffFindings(out, path) ==
    LintResult(Trim(JoinLines(RuffValidLines(Lines(Trim(out)), path))), "Findings")

\* Rubocop::execute: the lines that do not contain "1 file inspected"
RECURSIVE RubocopLines(_)
RubocopLines(ls) ==
    IF ls = <<>> THEN <<>>
    ELSE (IF \E i \in 1..Len(ls[1]) : ls[1][i] = "1 file inspected"
          THEN <<>> ELSE <<ls[1]>>) \o RubocopLines(Tail(ls))

\* Rubocop::execute, from the captured standard output on
RubocopFindings(out, path) ==
    LintResult(Replace(Trim(JoinLines(RubocopLines(Lines(out)))),
                       path \o <<":">>, <<"line ">>),
               "Findings")

\* Nushell::execute, from the captured standard output on
NushellFindings(out, path) == LintResult(Trim(out), "Findings")

\* What execute returns once its process has exited with standard output out.
Findings(handler, out, path) ==
    CASE handler = "shellcheck" -> ShellcheckFindings(out, path)
      [] handler = "ruff"       -> RuffFindings(out, path)
      [] handler = "rubocop"    -> RubocopFindings(out, path)
      [] handler = "nushell"    -> NushellFindings(out, path)

\* What a linter may print about the file at path (the inputs of the model).
Outputs(binary, path) ==
    CASE binary = "shellcheck" ->
           { <<>>,
             <<"\n", "In ">> \o path \o <<" ", "line 2:", "\n", "SC2086", "\n">> }
      [] binary = "ruff" ->
           { <<>>,
             path \o <<":", "1:1: F401", "\n", "Found ", "1 error.", "\n">> }
      [] binary = "rubocop" ->
           { <<"Inspecting 1 file", "\n", "\n", "1 file inspected", ", no offenses", "\n">>,
             path \o <<":", "1:1: C: Style", "\n", "\n", "1 file inspected", "\n">> }
      [] binary = "nu" ->
           { <<>>, <<"file could not be parsed by nu-check", "\n">> }

\* A variant of LanguageHandlerFor that also takes the tag SH for a shell.
LanguageHandlerIgnoringCase(executor) ==
    CASE executor \in {"sh", "bash", "SH"} -> "shellcheck"
      [] executor \in {"py", "python"}    -> "ruff"
      [] executor \in {"rb", "ruby"}      -> "rubocop"
      [] OTHER                            -> "catchall"

\* process_command: the handler of a script, by its executor tag
LanguageHandlerFor(executor) ==
    CASE executor \in {"sh", "bash"}   -> "shellcheck"
      [] executor \in {"py", "python"} -> "ruff"
      [] executor \in {"rb", "ruby"}   -> "rubocop"
      [] OTHER                         -> "catchall"

-----------------------------------------------------------------------------
(* The command tree: mask_parser's Command {name, script, subcommands} and *)
(* Script {executor, source}.                                              *)

Command(name, script, subcommands) ==
    [name |-> name, script |-> script, subcommands |-> subcommands]

Script(executor) == [executor |-> executor, source |-> <<"echo hi">>]

\* The shapes of the sequences of commands (forests) of exactly n nodes in
\* all: a node is the shape of its subcommands.
Shapes(n) ==
    LET of[k \in 0..n] ==
            IF k = 0 THEN {<<>>}
            ELSE UNION { { <<sub>> \o rest : sub \in of[j - 1], rest \in of[k - j] } :
                         j \in 1..k }
    IN  of[n]

RECURSIVE Size(_)
Size(shape) ==
    IF shape = <<>> THEN 0 ELSE 1 + Size(shape[1]) + Size(Tail(shape))

\* The forest of a shape, its nodes named and given scripts by label[i],
\* i counting the nodes from first on.
RECURSIVE Labelled(_, _, _)
Labelled(shape, label, first) ==
    IF shape = <<>> THEN <<>>
    ELSE <<Command(label[first].name, label[first].script,
                   Labelled(shape[1], label, first + 1))>>
         \o Labelled(Tail(shape), label, first + 1 + Size(shape[1]))

Label(name, script) == [name |-> name, script |-> script]

\* Spec: two names, a linted language and an unknown one.
SpecLabels ==
    [name : {<<"a">>, <<"b">>}, script : {None, Some(Script("sh")), Some(Script("rs"))}]

Executors ==
    {"sh", "bash", "py", "python", "rb", "ruby", "nu", "nushell", "rs", "SH", ""}

\* SpecExec: every executor tag.
ExecLabels ==
    [name : {<<"a">>}, script : {None} \cup {Some(Script(e)) : e \in Executors}]

\* SpecSame: one name, so that nodes of different branches have one full name.
SameLabels ==
    [name : {<<"a">>}, script : {None, Some(Script("sh")), Some(Script("rs"))}]

\* SpecNames: names whose files can be the same file.
NamesLabels ==
    { Label(<<"a">>, None),
      Label(<<"a">>, Some(Script("sh"))),
      Label(<<"a">>, Some(Script("rs"))),
      Label(<<"a", "_", "a">>, Some(Script("sh"))),
      Label(<<"a", "_", "a">>, Some(Script("rs"))),
      Label(<<"a", ".", "s", "h">>, Some(Script("rs"))) }

-----------------------------------------------------------------------------
(* main and process_command.                                               *)

Top == stack[Len(stack)]

Running == outcome = None

\* anyhow::Error, as main returns it
Error(kind, n, text) == [ok |-> FALSE, kind |-> kind, n |-> n, text |-> text]

Ok == [ok |-> TRUE]

\* io::Error of File::options().create_new(true).open() and of Command::output()
IoError(kind) ==
    CASE kind = "AlreadyExists" -> Error(kind, 0, <<"File exists (os error 17)">>)
      [] kind = "NotFound"      -> Error(kind, 0, <<"No such file or directory (os error 2)">>)
      [] OTHER                  -> Error(kind, 0, <<"Permission denied (os error 13)">>)

\* process_command: the map_err of the execute call
ExecuteError(handler, kind) ==
    IF kind = "NotFound"
    THEN Error("ExecutableNotFound", 0, <<"executable for ", handler, " not found in $PATH">>)
    ELSE IoError(kind)

\* A variant of LintFailures that always writes "files".
LintFailuresPlural(total_findings) ==
    Error("LintFailures", total_findings, <<" file", "s", " with lint failures.">>)

\* main: the error of a positive total
LintFailures(total_findings) ==
    Error("LintFailures", total_findings,
          <<" file", IF total_findings = 1 THEN "" ELSE "s", " with lint failures.">>)

\* main: the Result after the loop
ExitResult(total_findings) ==
    IF total_findings > 0 THEN LintFailures(total_findings) ELSE Ok

\* A variant of NextCommand that takes the last command first.
NextCommandFromBack(commands) ==
    [command |-> commands[Len(commands)], rest |-> SubSeq(commands, 1, Len(commands) - 1)]

\* The for loops over maskfile.commands and command.subcommands: the command
\* the loop takes next, and those it leaves for later.
NextCommand(commands) == [command |-> Head(commands), rest |-> Tail(commands)]

\* A variant of AlreadyExists: create(true), which opens an existing file.
Truncates(file_name, dir) == FALSE

\* File::options().create_new(true): the open fails when the file exists.
AlreadyExists(file_name, dir) == file_name \in DOMAIN dir

\* process_command: the full command name
FullCommandName(parent_name, name) ==
    IF parent_name = None THEN name ELSE Unwrap(parent_name) \o <<" ">> \o name

\* A variant of FileName that replaces the first space only.
FileNameFirstSpace(full_command_name, handler) ==
    LET spaces == {i \in 1..Len(full_command_name) : full_command_name[i] = " "}
        first  == CHOOSE i \in spaces : \A j \in spaces : i <= j
    IN  (IF spaces = {} THEN full_command_name
         ELSE [full_command_name EXCEPT ![first] = "_"]) \o file_extension(handler)

\* A variant of FileName that leaves the extension out.
FileNameNoExtension(full_command_name, handler) ==
    Replace(full_command_name, <<" ">>, <<"_">>)

\* process_command: the file name of a script
FileName(full_command_name, handler) ==
    Replace(full_command_name, <<" ">>, <<"_">>) \o file_extension(handler)

\* A variant of Report that counts a Findings result with an empty message.
ReportEveryFindings(lint_result, no_warnings) ==
    IF lint_result.result_type = "Findings"
    THEN [count |-> 1, print |-> lint_result.message # <<>>]
    ELSE [count |-> 0, print |-> lint_result.message # <<>> /\ ~no_warnings]

\* A variant of Report that prints a Warning whatever no_warnings is.
ReportWarnings(lint_result, no_warnings) ==
    IF lint_result.message # <<>>
    THEN [count |-> IF lint_result.result_type = "Findings" THEN 1 ELSE 0, print |-> TRUE]
    ELSE [count |-> 0, print |-> FALSE]

\* process_command: what a lint result adds to findings_count, and whether
\* print_results is called
Report(lint_result, no_warnings) ==
    IF lint_result.message # <<>>
    THEN IF lint_result.result_type = "Findings"
         THEN [count |-> 1, print |-> TRUE]
         ELSE [count |-> 0, print |-> ~no_warnings]
    ELSE [count |-> 0, print |-> FALSE]

\* A call of process_command(context, command, parent_name); path is the
\* place of command in the tree (history).
Frame(command, parent_name, path) ==
    [ path              |-> path,
      full_command_name |-> FullCommandName(parent_name, command.name),
      script            |-> command.script,
      subcommands       |-> command.subcommands,
      findings_count    |-> 0,
      handler           |-> NoProgram,
      file_path         |-> <<>>,
      next              |-> 1,
      pc                |-> "script" ]

Visit(frame) ==
    [ev |-> "visit", path |-> frame.path, full_command_name |-> frame.full_command_name]

SetTop(frame) == [stack EXCEPT ![Len(stack)] = frame]

\* A variant of Fail in which the error ends the script of this command only.
FailThisCommand(error) ==
    /\ stack' = SetTop([Top EXCEPT !.pc = "subcommands"])
    /\ UNCHANGED <<maskfile, context, files, main, procs, stdout, outcome>>

\* The ? operator: the error leaves every active call and main.
Fail(error) ==
    /\ outcome' = Some(error)
    /\ stack' = <<>>
    /\ UNCHANGED <<maskfile, context, files, main, procs, stdout>>

InitWith(n, labels) ==
    /\ \E k \in 0..n :
         \E shape \in Shapes(k), label \in [1..k -> labels] :
           maskfile = Labelled(shape, label, 1)
    /\ context \in [is_dump : BOOLEAN, no_warnings : BOOLEAN]
    /\ files = <<>>
    /\ main = [commands |-> maskfile, next |-> 1, total_findings |-> 0]
    /\ stack = <<>>
    /\ procs = {}
    /\ stdout = <<>>
    /\ outcome = None
    /\ log = <<>>

Init == InitWith(MaxNodes, SpecLabels)

InitExec == InitWith(MaxNodesExec, ExecLabels)

InitNames == InitWith(MaxNodesNames, NamesLabels)

InitSame == InitWith(MaxNodesSame, SameLabels)

\* main: the loop calls process_command for the next top-level command.
MainLoop ==
    /\ Running /\ stack = <<>> /\ main.commands # <<>>
    /\ LET iter  == NextCommand(main.commands)
           frame == Frame(iter.command, None, <<main.next>>)
       IN  /\ stack' = <<frame>>
           /\ log' = Append(log, Visit(frame))
           /\ main' = [main EXCEPT !.commands = iter.rest, !.next = @ + 1]
    /\ UNCHANGED <<maskfile, context, files, procs, stdout, outcome>>

\* main: after the loop.
MainExit ==
    /\ Running /\ stack = <<>> /\ main.commands = <<>>
    /\ outcome' = Some(ExitResult(main.total_findings))
    /\ UNCHANGED <<maskfile, context, files, main, stack, procs, stdout, log>>

\* process_command: the command has no script.
NoScript ==
    /\ Running /\ stack # <<>> /\ Top.pc = "script"
    /\ Top.script = None
    /\ stack' = SetTop([Top EXCEPT !.pc = "subcommands"])
    /\ UNCHANGED <<maskfile, context, files, main, procs, stdout, outcome, log>>

\* process_command: the script's file is created and written.
WriteScript ==
    /\ Running /\ stack # <<>> /\ Top.pc = "script"
    /\ Top.script # None
    /\ LET script    == Unwrap(Top.script)
           handler   == LanguageHandlerFor(script.executor)
           file_name == FileName(Top.full_command_name, handler)
           opened    == [ev |-> "open", path |-> Top.path, file_name |-> file_name,
                         handler |-> handler]
       IN  IF AlreadyExists(file_name, files)
           THEN /\ Fail(IoError("AlreadyExists"))
                /\ log' = Append(log, [opened EXCEPT !.ev = "exists"])
           ELSE \/ /\ Fail(IoError("PermissionDenied"))
                   /\ log' = Append(log, [opened EXCEPT !.ev = "denied"])
                \/ /\ files' = (file_name :> content(handler, script)) @@ files
                   /\ stack' = SetTop([Top EXCEPT
                                 !.handler = handler,
                                 !.file_path = PathJoin(OutDir, file_name),
                                 !.pc = IF context.is_dump THEN "subcommands" ELSE "execute"])
                   /\ log' = Append(log, opened)
                   /\ UNCHANGED <<maskfile, context, main, procs, stdout, outcome>>

\* process_command: the lint result is counted and printed.
Reported(lint_result) ==
    LET report == Report(lint_result, context.no_warnings)
    IN  /\ stack' = SetTop([Top EXCEPT !.findings_count = @ + report.count,
                                       !.pc = "subcommands"])
        /\ stdout' = IF report.print
                     THEN stdout \o << [by |-> Top.path, line |-> Top.full_command_name],
                                       [by |-> Top.path, line |-> lint_result.message] >>
                     ELSE stdout
        /\ log' = Append(log, [ev |-> "result", path |-> Top.path,
                               handler |-> Top.handler,
                               message |-> lint_result.message,
                               result_type |-> lint_result.result_type])

\* process_command, lint mode: Catchall::execute, which starts no process.
ExecuteCatchall ==
    /\ Running /\ stack # <<>> /\ Top.pc = "execute"
    /\ Binary(Top.handler) = NoProgram
    /\ Reported(CatchallExecute)
    /\ UNCHANGED <<maskfile, context, files, main, procs, outcome>>

\* process_command, lint mode: execute starts the linter (Command::output).
StartLinter ==
    /\ Running /\ stack # <<>> /\ Top.pc = "execute"
    /\ Binary(Top.handler) # NoProgram
    /\ LET started == [ev |-> "start", path |-> Top.path, handler |-> Top.handler,
                       binary |-> Binary(Top.handler), file_path |-> Top.file_path]
       IN  \/ /\ procs' = procs \cup {[binary |-> Binary(Top.handler), path |-> Top.file_path]}
              /\ stack' = SetTop([Top EXCEPT !.pc = "wait"])
              /\ log' = Append(log, started)
              /\ UNCHANGED <<maskfile, context, files, main, stdout, outcome>>
           \/ \E kind \in {"NotFound", "PermissionDenied"} :
                /\ Fail(ExecuteError(Top.handler, kind))
                /\ log' = Append(log, [started EXCEPT !.ev = kind])

\* process_command, lint mode: the linter exits and execute returns.
LinterExit ==
    /\ Running /\ stack # <<>> /\ Top.pc = "wait"
    /\ \E out \in Outputs(Binary(Top.handler), Top.file_path) :
         Reported(Findings(Top.handler, out, Top.file_path))
    /\ procs' = procs \ {[binary |-> Binary(Top.handler), path |-> Top.file_path]}
    /\ UNCHANGED <<maskfile, context, files, main, outcome>>

\* process_command: the loop calls process_command for the next subcommand.
NextSubcommand ==
    /\ Running /\ stack # <<>> /\ Top.pc = "subcommands"
    /\ Top.subcommands # <<>>
    /\ LET iter  == NextCommand(Top.subcommands)
           frame == Frame(iter.command, Some(Top.full_command_name),
                          Append(Top.path, Top.next))
       IN  /\ stack' = Append(SetTop([Top EXCEPT !.subcommands = iter.rest, !.next = @ + 1]),
                              frame)
           /\ log' = Append(log, Visit(frame))
    /\ UNCHANGED <<maskfile, context, files, main, procs, stdout, outcome>>

\* process_command returns Ok(findings_count) and its caller adds it.
Return ==
    /\ Running /\ stack # <<>> /\ Top.pc = "subcommands"
    /\ Top.subcommands = <<>>
    /\ IF Len(stack) = 1
       THEN /\ main' = [main EXCEPT !.total_findings = @ + Top.findings_count]
            /\ stack' = <<>>
       ELSE /\ stack' = [SubSeq(stack, 1, Len(stack) - 1) EXCEPT
                           ![Len(stack) - 1].findings_count = @ + Top.findings_count]
            /\ UNCHANGED main
    /\ UNCHANGED <<maskfile, context, files, procs, stdout, outcome, log>>

Next ==
    \/ MainLoop
    \/ MainExit
    \/ NoScript
    \/ WriteScript
    \/ ExecuteCatchall
    \/ StartLinter
    \/ LinterExit
    \/ NextSubcommand
    \/ Return

Spec == Init /\ [][Next]_vars

SpecExec == InitExec /\ [][Next]_vars

SpecNames == InitNames /\ [][Next]_vars

SpecSame == InitSame /\ [][Next]_vars

-----------------------------------------------------------------------------
(* The tree, as the properties below speak of it.  A node is named by its  *)
(* path: the index of its top-level command, then of each subcommand.      *)

RECURSIVE PathsOf(_, _)
PathsOf(commands, prefix) ==
    UNION { {Append(prefix, i)} \cup PathsOf(commands[i].subcommands, Append(prefix, i)) :
            i \in 1..Len(commands) }

NodePaths == PathsOf(maskfile, <<>>)

RECURSIVE NodeIn(_, _)
NodeIn(commands, path) ==
    IF Len(path) = 1 THEN commands[path[1]]
    ELSE NodeIn(commands[path[1]].subcommands, Tail(path))

Node(path) == NodeIn(maskfile, path)

ScriptPaths == {p \in NodePaths : Node(p).script # None}

ExecutorAt(path) == Unwrap(Node(path).script).executor

\* The names of the node's ancestors and its own, joined by single spaces.
RECURSIVE FullNameAt(_)
FullNameAt(path) ==
    IF Len(path) = 1 THEN Node(path).name
    ELSE FullNameAt(SubSeq(path, 1, Len(path) - 1)) \o <<" ">> \o Node(path).name

\* A name with every space replaced by an underscore.
Underscored(name) == [i \in 1..Len(name) |-> IF name[i] = " " THEN "_" ELSE name[i]]

\* Document order: a node comes before its descendants, and before its later
\* siblings and their descendants.
Before(p, q) ==
    \/ Len(p) < Len(q) /\ SubSeq(q, 1, Len(p)) = p
    \/ \E k \in 1..Len(p) :
         /\ k <= Len(q)
         /\ SubSeq(p, 1, k - 1) = SubSeq(q, 1, k - 1)
         /\ p[k] < q[k]

Events(kinds) == {i \in DOMAIN log : log[i].ev \in kinds}

ResultAt(path) == {i \in Events({"result"}) : log[i].path = path}

NonEmptyFindings(i) == log[i].result_type = "Findings" /\ log[i].message # <<>>

FatalKinds == {"exists", "denied", "NotFound", "PermissionDenied"}

Finished == outcome # None

\* The run ended and no error stopped the walk.
Walked == Finished /\ Events(FatalKinds) = {}

PrintedBy(path) == SelectSeq(stdout, LAMBDA l : l.by = path)

-----------------------------------------------------------------------------
(* C1: in lint mode, when no fatal error occurs, the total of the walk is  *)
(* the number of nodes whose execute returned a Findings result with a     *)
(* non-empty message; empty Findings, Warnings and nodes without a script  *)
(* add nothing.                                                            *)
C1_TotalIsNonEmptyFindings ==
    (Walked /\ ~context.is_dump) =>
        LET counted == {p \in NodePaths : \E i \in ResultAt(p) : NonEmptyFindings(i)}
        IN  /\ main.total_findings = Cardinality(counted)
            /\ Unwrap(outcome).ok <=> counted = {}
            /\ ~Unwrap(outcome).ok => Unwrap(outcome).n = Cardinality(counted)

C1_Witness ==
    /\ Walked /\ ~context.is_dump
    /\ main.total_findings = 1
    /\ \E i \in Events({"result"}) : log[i].result_type = "Findings" /\ log[i].message = <<>>
    /\ \E i \in Events({"result"}) : log[i].result_type = "Warning"

-----------------------------------------------------------------------------
(* C7: the exit of every run: the underlying error when an I/O, collision  *)
(* or missing-executable error stopped the walk; else the failure          *)
(* "<n> file(s) with lint failures." (file exactly when n = 1) when the    *)
(* findings total n is positive; else success.  A dump without an error    *)
(* succeeds.                                                               *)
C7_ExitOutcome ==
    Finished =>
        LET fatal == Events(FatalKinds)
            n     == main.total_findings
            exit  == Unwrap(outcome)
        IN  /\ fatal # {} =>
                 \A i \in fatal :
                   /\ ~exit.ok
                   /\ log[i].ev = "exists" => exit.kind = "AlreadyExists"
                   /\ log[i].ev \in {"denied", "PermissionDenied"} =>
                          exit.kind = "PermissionDenied"
                   /\ log[i].ev = "NotFound" => exit.kind = "ExecutableNotFound"
            /\ (fatal = {} /\ n > 0) =>
                 /\ ~exit.ok /\ exit.kind = "LintFailures" /\ exit.n = n
                 /\ exit.text = IF n = 1 THEN <<" file", "", " with lint failures.">>
                                ELSE <<" file", "s", " with lint failures.">>
            /\ (fatal = {} /\ n = 0) => exit.ok
            /\ (fatal = {} /\ context.is_dump) => exit.ok

C7_Witness ==
    /\ Finished /\ Events(FatalKinds) = {}
    /\ main.total_findings = 2
    /\ Unwrap(outcome).text[2] = "s"

-----------------------------------------------------------------------------
(* C2: a script whose executor tag is nu or nushell gets the Nushell       *)
(* handler: its file name ends in .nu and, in lint mode, nu is run on it   *)
(* and the result is of kind Findings, never the Catchall Warning.         *)
C2_NuSelectsNushell ==
    \A p \in ScriptPaths :
      ExecutorAt(p) \in {"nu", "nushell"} =>
        /\ \A i \in Events({"open"}) :
             log[i].path = p =>
               LET f == log[i].file_name
               IN  Len(f) >= 3 /\ SubSeq(f, Len(f) - 2, Len(f)) = <<".", "n", "u">>
        /\ \A i \in ResultAt(p) :
             /\ log[i].result_type = "Findings"
             /\ \E j \in Events({"start"}) :
                  j < i /\ log[j].path = p /\ log[j].binary = "nu"

-----------------------------------------------------------------------------
(* C3: a script whose executor tag is none of the recognized tags (exact,  *)
(* case-sensitive match) gets the Catchall handler: the file name has no   *)
(* extension, the content is the source unchanged, no process is started   *)
(* for it in either mode, and its result is always a Warning with the      *)
(* fixed non-empty message, never Findings.                                *)
RecognizedTags == {"sh", "bash", "py", "python", "rb", "ruby", "nu", "nushell"}

C3_UnrecognizedIsCatchall ==
    \A p \in ScriptPaths :
      ExecutorAt(p) \notin RecognizedTags =>
        /\ \A i \in Events({"open"}) :
             log[i].path = p =>
               /\ log[i].file_name = Underscored(FullNameAt(p))
               /\ log[i].file_name \in DOMAIN files
               /\ files[log[i].file_name] = Unwrap(Node(p).script).source
        /\ \A i \in Events({"start", "NotFound", "PermissionDenied"}) : log[i].path # p
        /\ \A pr \in procs : \A i \in Events({"open"}) :
             log[i].path = p => pr.path # PathJoin(OutDir, log[i].file_name)
        /\ \A i \in ResultAt(p) :
             /\ log[i].result_type = "Warning"
             /\ log[i].message = <<"no linter found for target">>
        /\ context.is_dump => ResultAt(p) = {}
        /\ (Walked /\ ~context.is_dump) => ResultAt(p) # {}

C3_Witness ==
    /\ Walked /\ ~context.is_dump
    /\ \E p \in ScriptPaths : ExecutorAt(p) = "SH" /\ ResultAt(p) # {}
    /\ \E p \in ScriptPaths : ExecutorAt(p) = "" /\ ResultAt(p) # {}

-----------------------------------------------------------------------------
(* C4: in dump mode, when no collision or I/O error occurs, the files      *)
(* created are exactly one per node with a script, named by the node's     *)
(* full command name with every space replaced by an underscore, followed  *)
(* by the extension of the selected handler; a node without a script gets  *)
(* no file, and no execute step is ever taken.                             *)
ExpectedFile(p) ==
    Underscored(FullNameAt(p)) \o file_extension(LanguageHandlerFor(ExecutorAt(p)))

C4_DumpFiles ==
    context.is_dump =>
        /\ Events({"start", "NotFound", "PermissionDenied", "result"}) = {}
        /\ procs = {} /\ stdout = <<>>
        /\ Walked =>
             /\ DOMAIN files = {ExpectedFile(p) : p \in ScriptPaths}
             /\ Cardinality(DOMAIN files) = Cardinality(ScriptPaths)
             /\ \A p \in ScriptPaths :
                  Cardinality({i \in Events({"open"}) : log[i].path = p}) = 1
             /\ \A i \in Events({"open"}) : log[i].path \in ScriptPaths

C4_Witness ==
    /\ context.is_dump /\ Walked
    /\ Cardinality(DOMAIN files) = 2
    /\ NodePaths # ScriptPaths
    /\ \E p \in ScriptPaths : Len(p) = 3

-----------------------------------------------------------------------------
(* C5, as claimed: a run never completes successfully on a tree with two   *)
(* distinct nodes of the same full command name.                           *)
SameFullName(p, q) == p # q /\ FullNameAt(p) = FullNameAt(q)

Extension(p) == file_extension(LanguageHandlerFor(ExecutorAt(p)))

C5_SameFullNameFails ==
    (\E p, q \in NodePaths : SameFullName(p, q)) =>
        ~(Finished /\ Unwrap(outcome).ok)

(* C5, amended: when two distinct nodes that both carry a script, with     *)
(* handlers of the same file extension, have the same full command name,   *)
(* the run fails with a collision error when the second is reached, the    *)
(* file of the first is not overwritten, and the run never completes, be   *)
(* it with success or with a count of lint failures.                       *)
C5_SameFileFails ==
    \A p, q \in ScriptPaths :
      (SameFullName(p, q) /\ Extension(p) = Extension(q) /\ Before(p, q)) =>
        /\ ~Walked
        /\ \A i \in Events({"open", "denied"}) : log[i].path # q
        /\ \A i \in Events({"exists"}) :
             log[i].path = q =>
               /\ Unwrap(outcome) = IoError("AlreadyExists")
               /\ \E j \in Events({"open"}) :
                    /\ j < i /\ log[j].file_name = log[i].file_name
                    /\ files[log[i].file_name] =
                         content(log[j].handler, Unwrap(Node(log[j].path).script))
        /\ \A i \in Events({"visit"}) :
             log[i].path = q =>
               \/ i = Len(log) /\ Running
               \/ i + 1 = Len(log) /\ log[i + 1].ev = "exists" /\ log[i + 1].path = q

C5_Witness ==
    \E p, q \in ScriptPaths :
      /\ SameFullName(p, q) /\ Extension(p) = Extension(q) /\ Before(p, q)
      /\ Len(p) = 2 /\ Len(q) = 2 /\ p[1] # q[1]
      /\ \E i \in Events({"exists"}) : log[i].path = q

-----------------------------------------------------------------------------
(* C6: in lint mode, when execute fails because the linter's program is    *)
(* not found, the run ends at once with an error naming the handler: no    *)
(* later node is visited, written or executed, nothing more is printed or  *)
(* counted, the result is that error and not a count, and the file of the  *)
(* failing node has been written.                                          *)
C6_NotFoundAborts ==
    \A i \in Events({"NotFound"}) :
      /\ ~context.is_dump
      /\ i = Len(log)
      /\ Finished
      /\ Unwrap(outcome) =
           Error("ExecutableNotFound", 0,
                 <<"executable for ", log[i].handler, " not found in $PATH">>)
      /\ log[i].handler = "shellcheck"
      /\ ExecutorAt(log[i].path) = "sh"
      /\ ExpectedFile(log[i].path) \in DOMAIN files
      /\ PathJoin(OutDir, ExpectedFile(log[i].path)) = log[i].file_path
      /\ PrintedBy(log[i].path) = <<>>
      /\ ~ENABLED Next

C6_Witness ==
    \E i \in Events({"NotFound"}) :
      /\ \E q \in ScriptPaths : Before(log[i].path, q) /\ Len(q) = Len(log[i].path)
      /\ \E j \in Events({"result"}) : NonEmptyFindings(j)

-----------------------------------------------------------------------------
(* C8: for a node whose execute returned a Warning, the findings counter   *)
(* is not incremented, the node's file has been written whatever the       *)
(* warning setting, and the name header and the message are printed if     *)
(* and only if no_warnings is false.  A Findings result with a non-empty   *)
(* message is printed whatever no_warnings is.                             *)
C8_Warnings ==
    \A i \in Events({"result"}) :
      LET p      == log[i].path
          report == << [by |-> p, line |-> FullNameAt(p)],
                       [by |-> p, line |-> log[i].message] >>
      IN  /\ log[i].result_type = "Warning" =>
               /\ ExpectedFile(p) \in DOMAIN files
               /\ PrintedBy(p) = IF context.no_warnings THEN <<>> ELSE report
               /\ (i = Len(log) /\ stack # <<>> /\ Top.path = p) =>
                     Top.findings_count = 0
               /\ log[i].message # <<>>
          /\ NonEmptyFindings(i) => PrintedBy(p) = report

C8_Witness ==
    /\ context.no_warnings /\ Walked
    /\ \E i \in Events({"result"}) : log[i].result_type = "Warning"
    /\ \E i \in Events({"result"}) : NonEmptyFindings(i)

-----------------------------------------------------------------------------
(* C9: the walk visits the nodes in document order, parent first, each     *)
(* node exactly once when no error stops it; a node's script is written,   *)
(* and in lint mode executed and reported, before any of its subcommands   *)
(* is visited; subcommands are visited in their listed order under the     *)
(* node's full name; and the execute of a node has returned before the     *)
(* file of a later node is created, so at most one linter runs at a time.  *)
C9_DocumentOrder ==
    LET nodes   == NodePaths
        scripts == ScriptPaths
        visits  == Events({"visit"})
        opens   == Events({"open"})
        results == Events({"result"})
    IN  /\ \A j \in DOMAIN log :
             j > 1 => \/ log[j - 1].path = log[j].path
                      \/ Before(log[j - 1].path, log[j].path)
        /\ \A i, j \in visits : i # j => log[i].path # log[j].path
        /\ \A i \in visits :
             LET q == log[i].path
             IN  /\ q \in nodes
                 /\ log[i].full_command_name = FullNameAt(q)
                 /\ \A p \in nodes :
                      Before(p, q) =>
                        /\ \E j \in visits : j < i /\ log[j].path = p
                        /\ p \in scripts =>
                             /\ \E j \in opens : j < i /\ log[j].path = p
                             /\ ~context.is_dump =>
                                  \E j \in results : j < i /\ log[j].path = p
        /\ \A j \in DOMAIN log :
             log[j].ev # "visit" => \E i \in visits : i < j /\ log[i].path = log[j].path
        /\ \A i \in Events({"start"}) :
             \/ i = Len(log) /\ procs = {[binary |-> log[i].binary, path |-> log[i].file_path]}
             \/ i < Len(log) /\ log[i + 1].ev = "result" /\ log[i + 1].path = log[i].path
        /\ Cardinality(procs) <= 1
        /\ procs # {} => Len(log) > 0 /\ log[Len(log)].ev = "start"
        /\ Walked => \A p \in nodes : \E i \in visits : log[i].path = p

C9_Witness ==
    /\ Walked /\ ~context.is_dump
    /\ <<1, 2>> \in NodePaths
    /\ Cardinality(Events({"start"})) = 2
    /\ Node(<<1, 1>>).name # Node(<<1, 2>>).name

-----------------------------------------------------------------------------
(* C10, as claimed: the creation of a script's file fails as a collision   *)
(* if and only if an earlier node with a script has a full command name    *)
(* that is equal once spaces are underscores and a handler of the same     *)
(* file extension.                                                         *)
Attempts == Events({"open", "exists", "denied"})

C10_CollisionIffNameAndExtension ==
    \A i \in Attempts :
      LET q == log[i].path
      IN  log[i].ev = "exists" <=>
            \E p \in ScriptPaths :
              /\ Before(p, q)
              /\ Underscored(FullNameAt(p)) = Underscored(FullNameAt(q))
              /\ Extension(p) = Extension(q)

(* C10, amended: the creation fails as a collision if and only if an       *)
(* earlier node with a script has the same file name, that is the same     *)
(* underscored full command name followed by the handler's extension.  An  *)
(* equal underscored name with an equal extension is enough for that but   *)
(* not needed: a.sh of an unknown language and a of sh are one file.       *)
C10_CollisionIffSameFile ==
    LET scripts == ScriptPaths
        file    == [p \in scripts |-> ExpectedFile(p)]
    IN  \A i \in Attempts :
          LET q == log[i].path
          IN  /\ q \in scripts
              /\ log[i].file_name = file[q]
              /\ log[i].ev = "exists" <=>
                   \E p \in scripts : Before(p, q) /\ file[p] = file[q]

C10_Witness ==
    \E i \in Events({"exists"}) :
      \E p \in ScriptPaths :
        /\ Before(p, log[i].path)
        /\ ExpectedFile(p) = ExpectedFile(log[i].path)
        /\ FullNameAt(p) # FullNameAt(log[i].path)
        /\ Extension(p) = Extension(log[i].path)

====
